---- MODULE Spec2Model ----
(***************************************************************************)
(* Model of MCPClient (MCP_client.py): connect(), query() and the          *)
(* streaming aggregation of the agent's chunks, with the window memory     *)
(* (ConversationBufferWindowMemory) the client creates at connect time.    *)
(*                                                                         *)
(* Texts are sequences of one-character strings, so that lower(), strip()  *)
(* and the [:200] slice are computed character by character.               *)
(***************************************************************************)
EXTENDS Integers, Sequences, FiniteSets, TLC

VARIABLES
    config,             \* ClientConfig handed to MCPClient.__init__
    agent,              \* self.agent: [set, timeout], timeout that of the ChatGroq it was built on
    tools,              \* self.tools: names of the loaded tools
    memory,             \* self.memory: [set, k, messages] (messages = chat_memory.messages)
    op,                 \* the operation called last: "none" | "connect" | "query"
    pc,                 \* position of that call: "idle" | "streaming" | "done"
    q,                  \* argument of the current / last query() call
    messages,           \* the context handed to agent.astream()
    invoked,            \* agent.astream() was called by the current / last query()
    stream,             \* the messages the agent has yielded so far, in order
    roundtrip,          \* -1: no model request in flight, else ticks waited for it
    final_messages,     \* local of query()
    intermediate_steps, \* local of query()
    result,             \* what the last call returned, or the exception it raised
    memBefore,          \* self.memory as it was when the last query() was called
    nchunks,            \* chunks yielded so far, over all queries
    calc,               \* the calculate tool of the server: [expression, evaluated, returned]
    session_state,      \* st.session_state of the app: [client, connected, messages, tools_available]
    script,             \* the last run of the app's script: [event, attempt, rerun, before]
    ui_response,        \* the last call of get_response(): [called, outcome, returned]
    tasks               \* the locals of two query() calls that run as tasks of one event loop

vars == << config, agent, tools, memory, op, pc, q, messages, invoked,
           stream, roundtrip, final_messages, intermediate_steps, result,
           memBefore, nchunks, calc, session_state, script, ui_response, tasks >>

----------------------------------------------------------------------------
(* Bounds of the model *)

\* exchanges (pairs of messages) the chat history grows to
MaxExchanges == 3
\* chunks the agent yields in one behaviour, over all queries
MaxChunks == 3

\* program constant: the slice bound of a tool result in the step trace
PreviewLen == 200

Min(a, b) == IF a < b THEN a ELSE b
Max(a, b) == IF a > b THEN a ELSE b

----------------------------------------------------------------------------
(* Text *)

UPPER == << "A", "B", "C", "D", "E", "F", "G", "H", "I", "J", "K", "L", "M",
            "N", "O", "P", "Q", "R", "S", "T", "U", "V", "W", "X", "Y", "Z" >>
LOWER == << "a", "b", "c", "d", "e", "f", "g", "h", "i", "j", "k", "l", "m",
            "n", "o", "p", "q", "r", "s", "t", "u", "v", "w", "x", "y", "z" >>
WHITESPACE == { " ", "\t", "\n" }

\* str.lower() on one character
LowerChar(c) ==
    IF \E i \in 1..Len(UPPER) : UPPER[i] = c
    THEN LOWER[CHOOSE i \in 1..Len(UPPER) : UPPER[i] = c]
    ELSE c

\* str.lower()
Lower(s) == [i \in 1..Len(s) |-> LowerChar(s[i])]

\* str.strip(): drop the leading and the trailing whitespace
Strip(s) ==
    LET nonws == { i \in 1..Len(s) : s[i] \notin WHITESPACE }
    IN  IF nonws = {} THEN << >>
        ELSE LET first == CHOOSE i \in nonws : \A j \in nonws : i <= j
                 last  == CHOOSE i \in nonws : \A j \in nonws : j <= i
             IN  SubSeq(s, first, last)

\* the greeting tokens of query()
GREETINGS == { << "h", "i" >>,
               << "h", "e", "l", "l", "o" >>,
               << "h", "e", "y" >>,
               << "h", "i", " ", "t", "h", "e", "r", "e" >> }

\* faulty variant: the text is not stripped
M_IsGreetingNoStrip(text) == Lower(text) \in GREETINGS

\* query.lower().strip() in {"hi", "hello", "hey", "hi there"}
IsGreeting(text) == Strip(Lower(text)) \in GREETINGS

\* the canned reply of the greeting guard
GREETING_RESPONSE ==
    << "H", "e", "l", "l", "o", "!", " ", "I", "'", "m", " ", "y", "o", "u",
      "r", " ", "A", "s", "s", "i", "s", "t", "a", "n", "t", ".", " ", "I",
      " ", "c", "a", "n", " ", "h", "e", "l", "p", " ", "y", "o", "u", " ",
      "s", "e", "a", "r", "c", "h", " ", "t", "h", "e", " ", "i", "n", "t",
      "e", "r", "n", "e", "t", ",", " ", "g", "e", "t", " ", "t", "h", "e",
      " ", "c", "u", "r", "r", "e", "n", "t", " ", "t", "i", "m", "e", ",",
      " ", "p", "e", "r", "f", "o", "r", "m", " ", "c", "a", "l", "c", "u",
      "l", "a", "t", "i", "o", "n", "s", ",", " ", "a", "n", "d", " ", "m",
      "o", "r", "e", ".", " ", "W", "h", "a", "t", " ", "w", "o", "u", "l",
      "d", " ", "y", "o", "u", " ", "l", "i", "k", "e", " ", "t", "o", " ",
      "k", "n", "o", "w", "?" >>

\* a value that is not a str (query(None))
NoneValue == << "<None>" >>
IsStr(x) == x # NoneValue

\* s[-n:] of a Python list, for n >= 1
Tail_n(s, n) == SubSeq(s, Max(1, Len(s) - n + 1), Len(s))

\* str(content)[:200]
Preview(content) == SubSeq(content, 1, Min(PreviewLen, Len(content)))

\* a text of n characters (no two neighbours alike)
Rep(n) == [i \in 1..n |-> IF i % 2 = 1 THEN "r" ELSE "s"]

----------------------------------------------------------------------------
(* Messages *)

HumanMessage(content) ==
    [type |-> "human", content |-> content, tool_calls |-> << >>, name |-> ""]
AIMessage(content, calls) ==
    [type |-> "ai", content |-> content, tool_calls |-> calls, name |-> ""]
ToolMessage(name, content) ==
    [type |-> "tool", content |-> content, tool_calls |-> << >>, name |-> name]

\* what the model and the tools may produce in this model
AITexts == { << >>, << "A" >>, << "B" >> }
AIMessages ==
    { AIMessage(t, << >>) : t \in AITexts }
    \cup { AIMessage(t, << "calculate" >>) : t \in { << >>, << "A" >> } }
ToolMessages ==
    { ToolMessage("calculate", c) : c \in { Rep(2), Rep(PreviewLen + 1) } }

\* the texts query() is called with
QueryTexts == { << "h", "i" >>,
                << " ", "H", "E", "Y", "\n" >>,
                << "2", "+", "2" >>,
                NoneValue }

----------------------------------------------------------------------------
(* ClientConfig *)

WindowSizes == { 1, 2 }     \* memory_window_size
IterationCaps == { 1 }   \* max_iterations
Timeouts == { 1 }           \* agent_timeout, in ticks
ApiKeys == { << >>, << "k" >> }

ClientConfig ==
    [ groq_api_key : ApiKeys,
      max_iterations : IterationCaps,
      agent_timeout : Timeouts,
      memory_window_size : WindowSizes,
      verbose : BOOLEAN ]

----------------------------------------------------------------------------
(* ConversationBufferWindowMemory, as the client uses it *)

NoMemory == [set |-> FALSE, k |-> 0, messages |-> << >>]

\* faulty variant: the window is counted in messages twice over
M_NewMemoryDoubleWindow(cfg) ==
    [set |-> TRUE, k |-> 2 * cfg.memory_window_size, messages |-> << >>]

\* ConversationBufferWindowMemory(k=memory_window_size, ...)
NewMemory(cfg) == [set |-> TRUE, k |-> cfg.memory_window_size, messages |-> << >>]

\* memory.buffer: the last k exchanges (2k messages) of the chat history
buffer(mem) == IF mem.k > 0 THEN Tail_n(mem.messages, 2 * mem.k) ELSE << >>

\* faulty variant: the output is stored before the input
M_save_contextOutputFirst(mem, i, o) ==
    [mem EXCEPT !.messages = @ \o << AIMessage(o, << >>), HumanMessage(i) >>]

\* memory.save_context({"input": i}, {"output": o})
save_context(mem, i, o) ==
    [mem EXCEPT !.messages = @ \o << HumanMessage(i), AIMessage(o, << >>) >>]

----------------------------------------------------------------------------
(* Results *)

NoResult == [status |-> "none", response |-> << >>, message |-> << >>,
             intermediate_steps |-> << >>]
Returned == [NoResult EXCEPT !.status = "returned"]
Raised(msg) == [NoResult EXCEPT !.status = "raised", !.message = msg]
Success(response, steps) ==
    [NoResult EXCEPT !.status = "success", !.response = response,
                     !.intermediate_steps = steps]
\* {"status": "error", "message": f"Query failed: {str(e)}"}
Error(e) == [NoResult EXCEPT !.status = "error", !.message = << "Query failed: ", e >>]

\* the exceptions the agent's stream raises: the model request timing out
\* (ChatGroq timeout), a transport failure, the graph's recursion limit
TimeoutError == "Request timed out."
StreamErrors == { "Connection error.", "Recursion limit reached" }
AttributeError == "'NoneType' object has no attribute 'lower'"

NoAgent == [set |-> FALSE, timeout |-> 0]
TOOLS == << "get_time", "calculate", "web_search" >>

----------------------------------------------------------------------------
InitClient ==
    /\ config \in ClientConfig
    /\ agent = NoAgent
    /\ tools = << >>
    /\ memory = NoMemory
    /\ op = "none"
    /\ pc = "idle"
    /\ q = << >>
    /\ messages = << >>
    /\ invoked = FALSE
    /\ stream = << >>
    /\ roundtrip = -1
    /\ final_messages = << >>
    /\ intermediate_steps = << >>
    /\ result = NoResult
    /\ memBefore = NoMemory
    /\ nchunks = 0

\* the calculate tool has not been called
NoCalc == [expression |-> << >>, evaluated |-> FALSE, returned |-> [status |-> "none"]]

\* the variables of a client, and those of the server's tool
clientVars == << config, agent, tools, memory, op, pc, q, messages, invoked,
                 stream, roundtrip, final_messages, intermediate_steps,
                 result, memBefore, nchunks >>

\* st.session_state.client = None
NoneClient == [stored |-> FALSE, agent |-> FALSE, tools |-> << >>]
\* st.session_state as the first run of the script leaves it
NoSession == [client |-> NoneClient, connected |-> FALSE, messages |-> << >>,
              tools_available |-> << >>]
\* the script has not run for an event yet
NoScript == [event |-> "none", attempt |-> "none", rerun |-> FALSE, before |-> NoSession]
\* get_response() has not been called
NoResponse == [called |-> FALSE, outcome |-> NoResult, returned |-> NoResult]

InitSession ==
    /\ session_state = NoSession
    /\ script = NoScript
    /\ ui_response = NoResponse

\* a query() call that has not started
NoTask == [pc |-> "idle", q |-> << >>, messages |-> << >>, final_messages |-> << >>,
           intermediate_steps |-> << >>, result |-> NoResult, overlapped |-> FALSE]
TaskIds == { 1, 2 }

InitTasks == tasks = [i \in TaskIds |-> NoTask]

Init ==
    /\ InitClient
    /\ calc = NoCalc
    /\ InitSession
    /\ InitTasks

----------------------------------------------------------------------------
(* connect() *)

ConnectOutcomes == { "provider_down", "agent_error", "ok" }

\* faulty variant: the memory is built before the key is validated
M_connectMemoryFirst(outcome) ==
    /\ pc # "streaming"
    /\ op' = "connect"
    /\ pc' = "done"
    /\ IF config.groq_api_key = << >>
       THEN /\ result' = Raised(<< "Failed to connect client: ", "GROQ_API_KEY is missing" >>)
            /\ memory' = NewMemory(config)
            /\ UNCHANGED << agent, tools >>
       ELSE /\ memory' = NewMemory(config)
            /\ tools' = IF outcome = "provider_down" THEN tools ELSE TOOLS
            /\ agent' = IF outcome = "ok"
                        THEN [set |-> TRUE, timeout |-> config.agent_timeout]
                        ELSE agent
            /\ result' = IF outcome = "ok" THEN Returned
                         ELSE Raised(<< "Failed to connect client: ", outcome >>)
    \* the locals of an earlier query() are gone
    /\ q' = << >>
    /\ messages' = << >>
    /\ invoked' = FALSE
    /\ stream' = << >>
    /\ final_messages' = << >>
    /\ intermediate_steps' = << >>
    /\ memBefore' = NoMemory
    /\ UNCHANGED << session_state, script, ui_response, tasks, calc, config, roundtrip, nchunks >>

connect(outcome) ==
    /\ pc # "streaming"
    /\ op' = "connect"
    /\ pc' = "done"
    /\ IF config.groq_api_key = << >>
       THEN /\ result' = Raised(<< "Failed to connect client: ", "GROQ_API_KEY is missing" >>)
            /\ UNCHANGED << agent, tools, memory >>
       ELSE /\ memory' = NewMemory(config)
            /\ tools' = IF outcome = "provider_down" THEN tools ELSE TOOLS
            /\ agent' = IF outcome = "ok"
                        THEN [set |-> TRUE, timeout |-> config.agent_timeout]
                        ELSE agent
            /\ result' = IF outcome = "ok" THEN Returned
                         ELSE Raised(<< "Failed to connect client: ", outcome >>)
    \* the locals of an earlier query() are gone
    /\ q' = << >>
    /\ messages' = << >>
    /\ invoked' = FALSE
    /\ stream' = << >>
    /\ final_messages' = << >>
    /\ intermediate_steps' = << >>
    /\ memBefore' = NoMemory
    /\ UNCHANGED << session_state, script, ui_response, tasks, calc, config, roundtrip, nchunks >>

----------------------------------------------------------------------------
(* query(): from the call to the first await *)

\* faulty variant: the whole buffer is sent, not its last memory_window_size
M_BuildMessagesWholeBuffer(mem, cfg, text) ==
    (IF mem.set THEN buffer(mem) ELSE << >>) \o << HumanMessage(text) >>

\* messages = memory.buffer[-memory_window_size:] + [HumanMessage(query)]
BuildMessages(mem, cfg, text) ==
    (IF mem.set /\ buffer(mem) # << >>
     THEN Tail_n(buffer(mem), cfg.memory_window_size)
     ELSE << >>)
    \o << HumanMessage(text) >>

\* the call returns (or raises) before the agent is invoked
QueryReturnsAtOnce(res) ==
    /\ pc' = "done"
    /\ result' = res
    /\ messages' = << >>
    /\ invoked' = FALSE

\* faulty variant: the greeting guard comes before the connection check
M_QueryCallGreetingFirst(text) ==
    /\ pc # "streaming"
    /\ Len(memory.messages) < 2 * MaxExchanges
    /\ op' = "query"
    /\ q' = text
    /\ memBefore' = memory
    /\ stream' = << >>
    /\ final_messages' = << >>
    /\ intermediate_steps' = << >>
    /\ roundtrip' = -1
    /\ IF IsStr(text) /\ IsGreeting(text)
         THEN QueryReturnsAtOnce(Success(GREETING_RESPONSE, << >>))
       ELSE IF ~agent.set
         THEN QueryReturnsAtOnce(Raised(<< "Client not connected. Call connect() first." >>))
       ELSE IF ~IsStr(text)
         THEN QueryReturnsAtOnce(Error(AttributeError))
       ELSE /\ pc' = "streaming"
            /\ result' = NoResult
            /\ messages' = BuildMessages(memory, config, text)
            /\ invoked' = TRUE
    /\ UNCHANGED << session_state, script, ui_response, tasks, calc, config, agent, tools, memory, nchunks >>

QueryCall(text) ==
    /\ pc # "streaming"
    /\ Len(memory.messages) < 2 * MaxExchanges
    /\ op' = "query"
    /\ q' = text
    /\ memBefore' = memory
    /\ stream' = << >>
    /\ final_messages' = << >>
    /\ intermediate_steps' = << >>
    /\ roundtrip' = -1
    /\ IF ~agent.set
         THEN QueryReturnsAtOnce(Raised(<< "Client not connected. Call connect() first." >>))
       ELSE IF ~IsStr(text)
         THEN QueryReturnsAtOnce(Error(AttributeError))
       ELSE IF IsGreeting(text)
         THEN QueryReturnsAtOnce(Success(GREETING_RESPONSE, << >>))
       ELSE /\ pc' = "streaming"
            /\ result' = NoResult
            /\ messages' = BuildMessages(memory, config, text)
            /\ invoked' = TRUE
    /\ UNCHANGED << session_state, script, ui_response, tasks, calc, config, agent, tools, memory, nchunks >>

----------------------------------------------------------------------------
(* query(): the async for over agent.astream() *)

\* the body of the loop for one "agent" chunk
OnAgentChunk(msg) ==
    /\ final_messages' = IF config.verbose THEN Append(final_messages, msg)
                         ELSE final_messages
    /\ UNCHANGED intermediate_steps

\* the body of the loop for one "tools" chunk
OnToolsChunk(msg) ==
    IF config.verbose
    THEN /\ final_messages' = Append(final_messages, msg)
         /\ intermediate_steps' =
                Append(intermediate_steps,
                       [tool |-> msg.name, result |-> Preview(msg.content)])
    ELSE UNCHANGED << final_messages, intermediate_steps >>

\* faulty variant: every chunk is stored in the memory as it arrives
M_YieldCommits(msg) ==
    /\ nchunks < MaxChunks
    /\ nchunks' = nchunks + 1
    /\ stream' = Append(stream, msg)
    /\ roundtrip' = -1
    /\ memory' = save_context(memory, q, msg.content)
    /\ UNCHANGED << session_state, script, ui_response, tasks, calc, config, agent, tools, op, pc, q, messages, invoked,
                    result, memBefore >>

Yield(msg) ==
    /\ nchunks < MaxChunks
    /\ nchunks' = nchunks + 1
    /\ stream' = Append(stream, msg)
    /\ roundtrip' = -1
    /\ UNCHANGED << session_state, script, ui_response, tasks, calc, config, agent, tools, memory, op, pc, q, messages, invoked,
                    result, memBefore >>

\* the agent node sends a request to the model
LLMRequest ==
    /\ pc = "streaming"
    /\ roundtrip = -1
    /\ roundtrip' = 0
    /\ UNCHANGED << session_state, script, ui_response, tasks, calc, config, agent, tools, memory, op, pc, q, messages, invoked,
                    stream, final_messages, intermediate_steps, result,
                    memBefore, nchunks >>

\* time passes while the request is in flight
Tick ==
    /\ pc = "streaming"
    /\ roundtrip >= 0
    /\ roundtrip < agent.timeout
    /\ roundtrip' = roundtrip + 1
    /\ UNCHANGED << session_state, script, ui_response, tasks, calc, config, agent, tools, memory, op, pc, q, messages, invoked,
                    stream, final_messages, intermediate_steps, result,
                    memBefore, nchunks >>

\* the model answers in time: the stream yields an "agent" chunk
LLMReturn(msg) ==
    /\ pc = "streaming"
    /\ roundtrip >= 0
    /\ roundtrip < agent.timeout
    /\ OnAgentChunk(msg)
    /\ Yield(msg)

\* a tool has run: the stream yields a "tools" chunk
ToolsReturn(msg) ==
    /\ pc = "streaming"
    /\ roundtrip = -1
    /\ OnToolsChunk(msg)
    /\ Yield(msg)

----------------------------------------------------------------------------
(* query(): after the loop *)

\* the last AIMessage without tool calls, else the last message
ExtractResponse(fm) ==
    LET plain == { i \in 1..Len(fm) : fm[i].type = "ai" /\ fm[i].tool_calls = << >> }
        response_text ==
            IF fm # << >> /\ plain # {}
            THEN fm[CHOOSE i \in plain : \A j \in plain : j <= i].content
            ELSE << >>
    IN  IF fm # << >> /\ response_text = << >>
        THEN fm[Len(fm)].content
        ELSE response_text

\* the stream is exhausted: aggregate, update the memory, return
StreamEnd ==
    /\ pc = "streaming"
    /\ roundtrip = -1
    /\ LET response_text == ExtractResponse(final_messages)
       IN  /\ memory' = IF memory.set THEN save_context(memory, q, response_text)
                        ELSE memory
           /\ result' = Success(response_text, intermediate_steps)
    /\ pc' = "done"
    /\ UNCHANGED << session_state, script, ui_response, tasks, calc, config, agent, tools, op, q, messages, invoked, stream,
                    roundtrip, final_messages, intermediate_steps, memBefore,
                    nchunks >>

\* faulty variant: the handler records the failed exchange in the memory
M_ExceptHandlerSaves(e) ==
    /\ result' = Error(e)
    /\ pc' = "done"
    /\ roundtrip' = -1
    /\ memory' = IF memory.set THEN save_context(memory, q, << >>) ELSE memory
    /\ UNCHANGED << session_state, script, ui_response, tasks, calc, config, agent, tools, op, q, messages, invoked, stream,
                    final_messages, intermediate_steps, memBefore, nchunks >>

\* faulty variant: the handler lets the exception go on to the caller
M_ExceptHandlerReraises(e) ==
    /\ result' = Raised(<< e >>)
    /\ pc' = "done"
    /\ roundtrip' = -1
    /\ UNCHANGED << session_state, script, ui_response, tasks, calc, config, agent, tools, memory, op, q, messages, invoked, stream,
                    final_messages, intermediate_steps, memBefore, nchunks >>

\* except Exception as e: return {"status": "error", ...}
ExceptHandler(e) ==
    /\ result' = Error(e)
    /\ pc' = "done"
    /\ roundtrip' = -1
    /\ UNCHANGED << session_state, script, ui_response, tasks, calc, config, agent, tools, memory, op, q, messages, invoked, stream,
                    final_messages, intermediate_steps, memBefore, nchunks >>

\* the stream raises (transport failure, recursion limit)
StreamRaise(e) ==
    /\ pc = "streaming"
    /\ roundtrip < agent.timeout
    /\ ExceptHandler(e)

\* faulty variant: a timed-out request ends the stream, the partial text is the answer
M_LLMTimeoutSalvages ==
    /\ pc = "streaming"
    /\ roundtrip = agent.timeout
    /\ LET response_text == ExtractResponse(final_messages)
       IN  /\ memory' = IF memory.set THEN save_context(memory, q, response_text)
                        ELSE memory
           /\ result' = Success(response_text, intermediate_steps)
    /\ pc' = "done"
    /\ roundtrip' = -1
    /\ UNCHANGED << session_state, script, ui_response, tasks, calc, config, agent, tools, op, q, messages, invoked, stream,
                    final_messages, intermediate_steps, memBefore, nchunks >>

\* the model request did not return within the timeout: the stream raises
LLMTimeout ==
    /\ pc = "streaming"
    /\ roundtrip = agent.timeout
    /\ ExceptHandler(TimeoutError)

----------------------------------------------------------------------------
(* MCP_server.py: the calculate tool *)

\* characters of an expression in one behaviour
MaxExprLen == 3

DIGITS == << "0", "1", "2", "3", "4", "5", "6", "7", "8", "9" >>
IsDigit(c) == \E i \in 1..Len(DIGITS) : DIGITS[i] = c
DigitValue(c) == (CHOOSE i \in 1..Len(DIGITS) : DIGITS[i] = c) - 1

\* allowed_chars = set("0123456789+-*/()., ")
ALLOWED_CHARS ==
    { DIGITS[i] : i \in 1..Len(DIGITS) } \cup { "+", "-", "*", "/", "(", ")", ".", ",", " " }

\* the characters the expressions of this model are made of: within them,
\* eval() below is Python's ("a" is a name, and never reaches eval())
ExprChars == { "0", "1", "+", "/", " ", "a" }

RECURSIVE SeqsUpTo(_, _)
SeqsUpTo(S, n) ==
    IF n = 0 THEN { << >> }
    ELSE LET shorter == SeqsUpTo(S, n - 1)
         IN  shorter \cup { Append(s, c) : s \in shorter, c \in S }

Expressions == SeqsUpTo(ExprChars, MaxExprLen) \cup { NoneValue }

\* the length of the run of digits s starts with
RECURSIVE DigitRun(_)
DigitRun(s) ==
    IF s = << >> \/ ~IsDigit(Head(s)) THEN 0 ELSE 1 + DigitRun(Tail(s))

\* Python's tokens of s: numbers, "//", and single characters; blanks separate
RECURSIVE Tokens(_)
Tokens(s) ==
    IF s = << >> THEN << >>
    ELSE IF Head(s) = " " THEN Tokens(Tail(s))
    ELSE IF IsDigit(Head(s))
      THEN LET n == DigitRun(s)
           IN  << [kind |-> "num", text |-> SubSeq(s, 1, n)] >>
               \o Tokens(SubSeq(s, n + 1, Len(s)))
    ELSE IF Len(s) >= 2 /\ s[1] = "/" /\ s[2] = "/"
      THEN << [kind |-> "op", text |-> << "/", "/" >>] >>
           \o Tokens(SubSeq(s, 3, Len(s)))
    ELSE << [kind |-> IF Head(s) \in { "+", "/" } THEN "op" ELSE "name",
             text |-> << Head(s) >>] >>
         \o Tokens(Tail(s))

\* a decimal integer literal: no leading zero, unless it is all zeros
ValidLiteral(text) == text[1] # "0" \/ \A i \in 1..Len(text) : text[i] = "0"

RECURSIVE LiteralValue(_)
LiteralValue(text) ==
    IF text = << >> THEN 0
    ELSE 10 * LiteralValue(SubSeq(text, 1, Len(text) - 1)) + DigitValue(text[Len(text)])

\* ts[i..] is: operand (operator operand)*, an operand being a literal or a
\* name after any number of unary "+"
RECURSIVE WellFormed(_, _, _)
WellFormed(ts, i, wantOperand) ==
    IF i > Len(ts) THEN ~wantOperand
    ELSE IF wantOperand
      THEN IF ts[i].kind = "num"
             THEN ValidLiteral(ts[i].text) /\ WellFormed(ts, i + 1, FALSE)
           ELSE IF ts[i].kind = "name" THEN WellFormed(ts, i + 1, FALSE)
           ELSE ts[i].text = << "+" >> /\ WellFormed(ts, i + 1, TRUE)
    ELSE ts[i].kind = "op" /\ WellFormed(ts, i + 1, TRUE)

\* values are fractions << numerator, denominator >>
Frac(n) == << n, 1 >>
FracAdd(a, b) == << a[1] * b[2] + b[1] * a[2], a[2] * b[2] >>
FracDiv(a, b) == << a[1] * b[2], a[2] * b[1] >>
FracFloorDiv(a, b) == << (a[1] * b[2]) \div (a[2] * b[1]), 1 >>

Value(v) == [raises |-> "", value |-> v]
Raises(e) == [raises |-> e, value |-> Frac(0)]

\* the index of the operand that starts at ts[i] (after its unary "+")
RECURSIVE OperandAt(_, _)
OperandAt(ts, i) == IF ts[i].kind = "op" THEN OperandAt(ts, i + 1) ELSE i

\* evaluate well-formed ts[i..], left to right: sum holds the terms added so
\* far, term the product being built
RECURSIVE EvalFrom(_, _, _, _)
EvalFrom(ts, i, sum, term) ==
    IF i > Len(ts) THEN Value(FracAdd(sum, term))
    ELSE LET j == OperandAt(ts, i + 1)
             operand == Frac(LiteralValue(ts[j].text))
         IN  IF ts[j].kind = "name" THEN Raises("NameError")
             ELSE IF ts[i].text = << "+" >>
               THEN EvalFrom(ts, j + 1, FracAdd(sum, term), operand)
             ELSE IF operand[1] = 0 THEN Raises("ZeroDivisionError")
             ELSE IF ts[i].text = << "/" >>
               THEN EvalFrom(ts, j + 1, sum, FracDiv(term, operand))
             ELSE EvalFrom(ts, j + 1, sum, FracFloorDiv(term, operand))

\* eval(expression, {"__builtins__": {}}, {})
Eval(expression) ==
    LET ts == Tokens(expression)
    IN  IF ~WellFormed(ts, 1, TRUE) THEN Raises("SyntaxError")
        ELSE LET j == OperandAt(ts, 1)
             IN  IF ts[j].kind = "name" THEN Raises("NameError")
                 ELSE EvalFrom(ts, j + 1, Frac(0), Frac(LiteralValue(ts[j].text)))

CalcInvalid ==
    [status |-> "error",
     error |-> << "Expression contains invalid characters. Only basic math operations are allowed." >>]
CalcFailed(e) == [status |-> "error", error |-> << "Calculation failed: ", e >>]
CalcSuccess(expression, v) ==
    [status |-> "success", expression |-> expression, result |-> v]

\* faulty variant: the characters are not checked before eval()
M_calculateUnchecked(expression) ==
    IF ~IsStr(expression)
    THEN [evaluated |-> FALSE, returned |-> CalcFailed("TypeError")]
    ELSE LET r == Eval(expression)
         IN  [evaluated |-> TRUE,
              returned |-> IF r.raises # "" THEN CalcFailed(r.raises)
                           ELSE CalcSuccess(expression, r.value)]

\* calculate(expression): what it returns, and whether eval() was called
calculate(expression) ==
    IF ~IsStr(expression)
    THEN \* iterating over a non-str raises TypeError inside the try
         [evaluated |-> FALSE, returned |-> CalcFailed("TypeError")]
    ELSE IF ~(\A i \in 1..Len(expression) : expression[i] \in ALLOWED_CHARS)
    THEN [evaluated |-> FALSE, returned |-> CalcInvalid]
    ELSE LET r == Eval(expression)
         IN  [evaluated |-> TRUE,
              returned |-> IF r.raises # "" THEN CalcFailed(r.raises)
                           ELSE CalcSuccess(expression, r.value)]

\* a client of the server calls the tool
CallCalculate ==
    /\ calc.returned.status = "none"
    /\ calc' = [expression |-> calc.expression,
                evaluated |-> calculate(calc.expression).evaluated,
                returned |-> calculate(calc.expression).returned]
    /\ UNCHANGED << clientVars, session_state, script, ui_response, tasks >>

\* the tool, for every expression of the model
InitCalc ==
    /\ InitClient
    /\ InitSession
    /\ InitTasks
    /\ \E e \in Expressions : calc = [NoCalc EXCEPT !.expression = e]

SpecCalc == InitCalc /\ [][CallCalculate]_vars

----------------------------------------------------------------------------
Next ==
    \/ \E outcome \in ConnectOutcomes : connect(outcome)
    \/ \E text \in QueryTexts : QueryCall(text)
    \/ LLMRequest
    \/ Tick
    \/ \E msg \in AIMessages : LLMReturn(msg)
    \/ \E msg \in ToolMessages : ToolsReturn(msg)
    \/ StreamEnd
    \/ \E e \in StreamErrors : StreamRaise(e)
    \/ LLMTimeout

Spec == Init /\ [][Next]_vars

\* the timeout path, for the smallest window
InitFair == Init /\ config.memory_window_size = 1

\* the event loop runs what is ready: an expired request timer fires
FairSpec == InitFair /\ [][Next]_vars /\ WF_vars(LLMTimeout)

----------------------------------------------------------------------------
(* A tool request the tools node cannot serve *)

\* the content of the ToolMessage the tools node answers a request for an
\* unregistered tool with
INVALID_TOOL_ERROR ==
    << "E", "r", "r", "o", "r", ":", " ", "n", "o", "p", "e", " ", "i", "s",
       " ", "n", "o", "t", " ", "a", " ", "v", "a", "l", "i", "d", " ", "t",
       "o", "o", "l", ",", " ", "t", "r", "y", " ", "o", "n", "e", " ", "o",
       "f", " ", "[", "g", "e", "t", "_", "t", "i", "m", "e", ",", " ", "c",
       "a", "l", "c", "u", "l", "a", "t", "e", ",", " ", "w", "e", "b", "_",
       "s", "e", "a", "r", "c", "h", "]", "." >>

\* an agent turn that requests a tool the server does not offer
BadToolRequests == { AIMessage(<< >>, << "nope" >>) }
\* the answer of the tools node to it
ToolErrorMessages == { ToolMessage("nope", INVALID_TOOL_ERROR) }

NextTools ==
    \/ Next
    \/ \E msg \in BadToolRequests : LLMReturn(msg)
    \/ \E msg \in ToolErrorMessages : ToolsReturn(msg)

\* the client, with agents that also request unregistered tools
SpecTools == Init /\ [][NextTools]_vars

----------------------------------------------------------------------------
(* streamlit_app.py: the session state and the helpers *)

\* chat turns the session's chat history grows to
MaxChat == 2

\* what st.chat_input() hands over
Prompts == QueryTexts \ { NoneValue }

\* the client object that MCPClient(ClientConfig()) is after its connect()
\* ended with the given outcome
ClientAfterConnect(cfg, outcome) ==
    [stored |-> TRUE,
     agent  |-> cfg.groq_api_key # << >> /\ outcome = "ok",
     tools  |-> IF cfg.groq_api_key = << >> \/ outcome = "provider_down"
                THEN << >> ELSE TOOLS]
\* client.connect() raised
ConnectRaised(cfg, outcome) == cfg.groq_api_key = << >> \/ outcome # "ok"

\* what client.query(text) can end with: a result, or the exception of a
\* client that is not connected
QueryResults(client, text) ==
    IF ~client.agent
    THEN { Raised(<< "Client not connected. Call connect() first." >>) }
    ELSE IF IsGreeting(text)
    THEN { Success(GREETING_RESPONSE, << >>) }
    ELSE { Success(t, << >>) : t \in AITexts }
         \cup { Error(e) : e \in StreamErrors \cup { TimeoutError } }

\* {"status": "error", "message": msg}
UIError(msg) == [NoResult EXCEPT !.status = "error", !.message = msg]
\* str() of the exception of None.query
NoneQueryError == "'NoneType' object has no attribute 'query'"

\* faulty variant: the client is stored before its connect() is awaited
M_connect_clientStoresFirst(ss, cfg, outcome) ==
    IF ~ss.client.stored
    THEN IF ConnectRaised(cfg, outcome)
         THEN [session |-> [ss EXCEPT !.client = ClientAfterConnect(cfg, outcome)],
               attempt |-> "failed", result |-> FALSE]
         ELSE [session |-> [ss EXCEPT !.client = ClientAfterConnect(cfg, outcome),
                                      !.connected = TRUE,
                                      !.tools_available = ClientAfterConnect(cfg, outcome).tools],
               attempt |-> "ok", result |-> TRUE]
    ELSE [session |-> ss, attempt |-> "none", result |-> ss.connected]

\* connect_client(): the session it leaves, whether it tried, what it returns
connect_client(ss, cfg, outcome) ==
    IF ~ss.client.stored
    THEN IF ConnectRaised(cfg, outcome)
         THEN [session |-> ss, attempt |-> "failed", result |-> FALSE]
         ELSE [session |-> [ss EXCEPT !.client = ClientAfterConnect(cfg, outcome),
                                      !.connected = TRUE,
                                      !.tools_available = ClientAfterConnect(cfg, outcome).tools],
               attempt |-> "ok", result |-> TRUE]
    ELSE [session |-> ss, attempt |-> "none", result |-> ss.connected]

\* faulty variant: the client is called whether or not the session is connected
M_get_responseNoGuard(ss, r) ==
    IF ~ss.client.stored
    THEN [called |-> FALSE, outcome |-> NoResult, returned |-> UIError(<< NoneQueryError >>)]
    ELSE IF r.status = "raised"
    THEN [called |-> TRUE, outcome |-> r, returned |-> UIError(r.message)]
    ELSE [called |-> TRUE, outcome |-> r, returned |-> r]

\* get_response(query), r being what client.query(query) ends with
get_response(ss, r) ==
    IF ~ss.connected
    THEN [called |-> FALSE, outcome |-> NoResult,
          returned |-> UIError(<< "Client not connected" >>)]
    ELSE IF ~ss.client.stored
    THEN [called |-> FALSE, outcome |-> NoResult, returned |-> UIError(<< NoneQueryError >>)]
    ELSE IF r.status = "raised"
    THEN [called |-> TRUE, outcome |-> r, returned |-> UIError(r.message)]
    ELSE [called |-> TRUE, outcome |-> r, returned |-> r]

\* the "Initialize connection on first load" block of the script
AutoConnect(ss, cfg, outcome) ==
    IF ~ss.connected /\ ~ss.client.stored
    THEN connect_client(ss, cfg, outcome)
    ELSE [session |-> ss, attempt |-> "none", result |-> FALSE]

\* the entries of st.session_state.messages
UserMessage(text) == [role |-> "user", content |-> text, steps |-> << >>]
AssistantMessage(res) ==
    IF res.status = "success"
    THEN [role |-> "assistant", content |-> res.response, steps |-> res.intermediate_steps]
    ELSE [role |-> "assistant", content |-> << "Error: " >> \o res.message, steps |-> << >>]

\* the later of two attempts of one run that was made
LastAttempt(a, b) == IF b # "none" THEN b ELSE a

\* one run of the script ends
EndRun(event, ss, attempt, rerun) ==
    /\ session_state' = ss
    /\ script' = [event |-> event, attempt |-> attempt, rerun |-> rerun,
                  before |-> session_state]
    /\ UNCHANGED << clientVars, calc, tasks >>

\* the script runs with no widget event: the first load, or after st.rerun()
ScriptLoad(outcome) ==
    LET a == AutoConnect(session_state, config, outcome)
    IN  /\ EndRun("load", a.session, a.attempt, a.result)
        /\ UNCHANGED ui_response

\* the Connect button
ClickConnect(outcome, outcome2) ==
    /\ ~script.rerun
    /\ LET ss == session_state
           c == IF ~ss.client.stored \/ ~ss.connected
                THEN connect_client(ss, config, outcome)
                ELSE [session |-> ss, attempt |-> "none", result |-> FALSE]
           a == AutoConnect(c.session, config, outcome2)
       IN  IF c.result
           THEN EndRun("connect", c.session, c.attempt, TRUE)
           ELSE EndRun("connect", a.session, LastAttempt(c.attempt, a.attempt), a.result)
    /\ UNCHANGED ui_response

\* the Disconnect button
ClickDisconnect ==
    /\ ~script.rerun
    /\ EndRun("disconnect",
              [session_state EXCEPT !.client = NoneClient, !.connected = FALSE,
                                    !.messages = << >>],
              "none", TRUE)
    /\ UNCHANGED ui_response

\* the Clear Chat History button
ClickClear ==
    /\ ~script.rerun
    /\ EndRun("clear", [session_state EXCEPT !.messages = << >>], "none", TRUE)
    /\ UNCHANGED ui_response

\* a chat prompt
ChatPrompt(prompt, outcome) ==
    /\ ~script.rerun
    /\ Len(session_state.messages) < 2 * MaxChat
    /\ LET a == AutoConnect(session_state, config, outcome)
           asked == [a.session EXCEPT !.messages = Append(@, UserMessage(prompt))]
       IN  IF a.result \/ ~a.session.connected
           THEN /\ EndRun("prompt", a.session, a.attempt, a.result)
                /\ UNCHANGED ui_response
           ELSE \E r \in QueryResults(asked.client, prompt) :
                   /\ ui_response' = get_response(asked, r)
                   /\ EndRun("prompt",
                             [asked EXCEPT !.messages =
                                 Append(@, AssistantMessage(get_response(asked, r).returned))],
                             a.attempt, FALSE)

NextUI ==
    \/ \E outcome \in ConnectOutcomes : ScriptLoad(outcome)
    \/ \E outcome, outcome2 \in ConnectOutcomes : ClickConnect(outcome, outcome2)
    \/ ClickDisconnect
    \/ ClickClear
    \/ \E prompt \in Prompts, outcome \in ConnectOutcomes : ChatPrompt(prompt, outcome)

\* the app
SpecUI == Init /\ [][NextUI]_vars

\* a call of get_response(), by any caller
CallGetResponse ==
    /\ ui_response.returned.status = "none"
    /\ \E prompt \in Prompts :
         \E r \in QueryResults(session_state.client, prompt) :
            ui_response' = get_response(session_state, r)
    /\ UNCHANGED << clientVars, calc, tasks, session_state, script >>

\* the sessions get_response() is tried on
Sessions ==
    { [NoSession EXCEPT !.connected = c, !.client = cl] :
        c \in BOOLEAN,
        cl \in { NoneClient }
               \cup { ClientAfterConnect(cfg, o) : cfg \in ClientConfig, o \in ConnectOutcomes } }

InitHelper ==
    /\ InitClient
    /\ calc = NoCalc
    /\ InitTasks
    /\ script = NoScript
    /\ ui_response = NoResponse
    /\ session_state \in Sessions

\* get_response(), on every session of the model
SpecHelper == InitHelper /\ [][CallGetResponse]_vars

----------------------------------------------------------------------------
(* Two query() calls on one client, as tasks of one event loop: a task runs
   from one await to the next without interruption, and the only await of
   query() is the one on the agent's stream. *)

\* the chunks the tasks' streams are made of
TaskChunks == { AIMessage(t, << >>) : t \in AITexts }
              \cup { ToolMessage("calculate", Rep(2)) }

Other(i) == CHOOSE j \in TaskIds : j # i

TaskVarsUnchanged ==
    UNCHANGED << config, agent, tools, op, pc, q, messages, invoked, stream,
                 roundtrip, final_messages, intermediate_steps, result,
                 memBefore, calc, session_state, script, ui_response >>

\* the call returns (or raises) without having awaited anything
TaskReturnsAtOnce(i, text, res) ==
    tasks' = [tasks EXCEPT ![i] = [NoTask EXCEPT !.pc = "done", !.q = text, !.result = res]]

\* query(text), up to the await on agent.astream()
TaskCall(i, text) ==
    /\ tasks[i].pc = "idle"
    /\ IF ~agent.set
         THEN TaskReturnsAtOnce(i, text, Raised(<< "Client not connected. Call connect() first." >>))
       ELSE IF ~IsStr(text)
         THEN TaskReturnsAtOnce(i, text, Error(AttributeError))
       ELSE IF IsGreeting(text)
         THEN TaskReturnsAtOnce(i, text, Success(GREETING_RESPONSE, << >>))
       ELSE tasks' = [j \in TaskIds |->
                IF j = i
                THEN [NoTask EXCEPT !.pc = "streaming", !.q = text,
                                    !.messages = BuildMessages(memory, config, text),
                                    !.overlapped = tasks[Other(i)].pc = "streaming"]
                ELSE [tasks[j] EXCEPT !.overlapped = @ \/ tasks[j].pc = "streaming"]]
    /\ UNCHANGED << memory, nchunks >>
    /\ TaskVarsUnchanged

\* the stream of task i yields a chunk: the body of the loop
TaskChunk(i, msg) ==
    /\ tasks[i].pc = "streaming"
    /\ nchunks < MaxChunks
    /\ nchunks' = nchunks + 1
    /\ tasks' = [tasks EXCEPT ![i] =
          IF config.verbose
          THEN [@ EXCEPT !.final_messages = Append(@, msg),
                         !.intermediate_steps =
                            IF msg.type = "tool"
                            THEN Append(@, [tool |-> msg.name, result |-> Preview(msg.content)])
                            ELSE @]
          ELSE @]
    /\ UNCHANGED memory
    /\ TaskVarsUnchanged

\* faulty variant: the task writes back the history it read, with its pair
M_TaskEndWritesSnapshot(i) ==
    /\ tasks[i].pc = "streaming"
    /\ LET response_text == ExtractResponse(tasks[i].final_messages)
           read == SubSeq(tasks[i].messages, 1, Len(tasks[i].messages) - 1)
       IN  /\ memory' = [memory EXCEPT !.messages =
                            read \o << HumanMessage(tasks[i].q),
                                       AIMessage(response_text, << >>) >>]
           /\ tasks' = [tasks EXCEPT ![i].pc = "done",
                                     ![i].result = Success(response_text,
                                                           tasks[i].intermediate_steps)]
    /\ UNCHANGED nchunks
    /\ TaskVarsUnchanged

\* the stream of task i ends: the response is extracted, saved and returned
TaskEnd(i) ==
    /\ tasks[i].pc = "streaming"
    /\ LET response_text == ExtractResponse(tasks[i].final_messages)
       IN  /\ memory' = IF memory.set
                        THEN save_context(memory, tasks[i].q, response_text)
                        ELSE memory
           /\ tasks' = [tasks EXCEPT ![i].pc = "done",
                                     ![i].result = Success(response_text,
                                                           tasks[i].intermediate_steps)]
    /\ UNCHANGED nchunks
    /\ TaskVarsUnchanged

\* the stream of task i raises: the handler returns the error
TaskRaise(i, e) ==
    /\ tasks[i].pc = "streaming"
    /\ tasks' = [tasks EXCEPT ![i].pc = "done", ![i].result = Error(e)]
    /\ UNCHANGED << memory, nchunks >>
    /\ TaskVarsUnchanged

\* connect(), before the first query
ConnectFirst(outcome) ==
    /\ ~agent.set
    /\ \A i \in TaskIds : tasks[i].pc = "idle"
    /\ connect(outcome)

NextTasks ==
    \/ \E outcome \in ConnectOutcomes : ConnectFirst(outcome)
    \/ \E i \in TaskIds, text \in QueryTexts : TaskCall(i, text)
    \/ \E i \in TaskIds, msg \in TaskChunks : TaskChunk(i, msg)
    \/ \E i \in TaskIds : TaskEnd(i)
    \/ \E i \in TaskIds, e \in StreamErrors : TaskRaise(i, e)

\* one client, two query() calls that may overlap
SpecTasks == Init /\ [][NextTasks]_vars

----------------------------------------------------------------------------
(* Properties *)

\* a query() call has returned (or raised)
QueryDone == op = "query" /\ pc = "done"
\* a query() call has consumed its whole stream and returned success
Completed == QueryDone /\ invoked /\ result.status = "success"

\* agent turns without tool requests and with text, by position in the stream
PlainTextTurns(s) ==
    { i \in 1..Len(s) : s[i].type = "ai" /\ s[i].tool_calls = << >>
                        /\ s[i].content # << >> }
\* agent turns without tool requests, by position in the stream
PlainTurns(s) == { i \in 1..Len(s) : s[i].type = "ai" /\ s[i].tool_calls = << >> }
\* agent turns that request tools, by position in the stream
ToolRequestTurns(s) ==
    { i \in 1..Len(s) : s[i].type = "ai" /\ s[i].tool_calls # << >> }
IsToolMessage(m) == m.type = "tool"
ToolResults(s) == SelectSeq(s, IsToolMessage)
Last(S) == CHOOSE i \in S : \A j \in S : j <= i

\* C1: a query() call that returns status=error leaves the conversation
\* memory exactly as it was when the call was made.
C1_FailedQueryKeepsMemory ==
    (QueryDone /\ result.status = "error") => memory = memBefore

\* C1 witness: a query failed in mid-stream on a memory that holds exchanges
C1_Witness ==
    /\ QueryDone /\ result.status = "error"
    /\ stream # << >>
    /\ memory.messages # << >>

C3_NeverRaises ==
    QueryDone => result.status \in { "success", "error" }

\* C3 amended: on a connected client every query() call returns a result
\* whose status is success or error, whatever fails in the loop; on a
\* client that is not connected the call raises RuntimeError to its caller.
C3_NeverRaisesWhenConnected ==
    QueryDone =>
        IF agent.set
        THEN result.status \in { "success", "error" }
        ELSE result = Raised(<< "Client not connected. Call connect() first." >>)

\* C3 witness: the stream of a connected client raised after some chunks
C3_Witness ==
    /\ QueryDone /\ agent.set
    /\ stream # << >>
    /\ result.status = "error"
    /\ result.message[2] \in StreamErrors

\* C4: when the stream holds an agent turn with no tool requests and with
\* text, the response of query() is the text of the last such turn.
C4_LastWins ==
    (Completed /\ PlainTextTurns(stream) # {}) =>
        result.response = stream[Last(PlainTextTurns(stream))].content

\* C5: when the stream holds no agent turn without tool requests and ends
\* in a tool result, the response of query() is that result's preview (the
\* bounded text of the trace) and is not empty.
C5_FallbackIsPreview ==
    (Completed /\ stream # << >> /\ PlainTurns(stream) = {}
               /\ stream[Len(stream)].type = "tool") =>
        /\ result.response = Preview(stream[Len(stream)].content)
        /\ result.response # << >>

\* C6: a query() whose stream yields nothing returns status=error, never a
\* success with an empty response, and leaves the memory as it was.
C6_EmptyStreamIsError ==
    (QueryDone /\ invoked /\ stream = << >>) =>
        /\ result.status = "error"
        /\ memory = memBefore

\* C7: on a connected client, a text that trimmed and case-folded is one of
\* the greeting tokens gets status=success with an empty step trace, and
\* the agent is not invoked.
C7_GreetingFastPath ==
    (QueryDone /\ agent.set /\ Lower(Strip(q)) \in GREETINGS) =>
        /\ result.status = "success"
        /\ result.intermediate_steps = << >>
        /\ ~invoked
        /\ stream = << >>

\* C7 witness: a greeting that needs both the trimming and the case folding
C7_Witness ==
    /\ QueryDone /\ agent.set
    /\ q = << " ", "H", "E", "Y", "\n" >>
    /\ result = Success(GREETING_RESPONSE, << >>)

\* C8: in the steps of a completed query there is one record per tool
\* result, and the record of a result longer than the preview bound is the
\* result cut to the bound followed by a marker (so it is longer than the
\* bound and differs from the bare cut); the full result is not in the steps.
C8_TruncationMarker ==
    Completed =>
        LET tr == ToolResults(stream)
            st == result.intermediate_steps
        IN  /\ Len(st) = Len(tr)
            /\ \A i \in 1..Len(tr) :
                 Len(tr[i].content) > PreviewLen =>
                    /\ Len(st[i].result) > PreviewLen
                    /\ SubSeq(st[i].result, 1, PreviewLen) = Preview(tr[i].content)
                    /\ st[i].result # tr[i].content

\* C9: the loop does not go on past the iteration cap N = max_iterations:
\* the stream a query consumes never holds more than N agent turns that
\* request tools.
C9_IterationCap ==
    (op = "query" /\ invoked) =>
        Cardinality(ToolRequestTurns(stream)) <= config.max_iterations

\* C10: when a model request of a query has not returned within the
\* timeout, query() eventually returns status=error with the timeout's
\* message (not that of another failure), the memory being as it was when
\* the call was made.
C10_TimeoutReported ==
    (pc = "streaming" /\ roundtrip = agent.timeout)
        ~> ( /\ QueryDone
             /\ result = Error(TimeoutError)
             /\ result.message[2] \notin StreamErrors
             /\ memory = memBefore )

\* C10 witness: a request timed out after chunks had arrived, on a memory
\* that holds exchanges
C10_Witness ==
    /\ QueryDone
    /\ result = Error(TimeoutError)
    /\ stream # << >>
    /\ memory.messages # << >>

\* a tool result that carries the error of an unserved request
IsToolError(m) == m.type = "tool" /\ m.name \notin { TOOLS[i] : i \in 1..Len(TOOLS) }

\* C11: when a tool request of the stream names an unregistered tool and
\* the stream ends in an agent turn without tool requests that has text,
\* query() returns status=success with that text, and the steps hold the
\* entry of the failed call with its error.
C11_ToolCallIsolation ==
    (/\ QueryDone /\ invoked /\ pc = "done" /\ result.status # "error"
     /\ stream # << >>
     /\ Len(stream) \in PlainTextTurns(stream)
     /\ \E i \in 1..Len(stream) :
            /\ IsToolError(stream[i])
            /\ i > 1
            /\ stream[i - 1] \in BadToolRequests) =>
        /\ result.status = "success"
        /\ result.response = stream[Len(stream)].content
        /\ \A i \in 1..Len(stream) :
             IsToolError(stream[i]) =>
                \E k \in 1..Len(result.intermediate_steps) :
                    result.intermediate_steps[k] =
                        [tool |-> stream[i].name, result |-> Preview(stream[i].content)]

\* C12: connect() on a connected client is a no-op: it leaves the memory,
\* the tools and the agent as they were.
C12_ConnectIdempotent ==
    [][(agent.set /\ op # "connect" /\ op' = "connect") =>
           (memory' = memory /\ tools' = tools /\ agent' = agent)]_vars

\* C13: query() on a client that is not connected is rejected at once as
\* not connected, whatever the text (a greeting too): the agent is not
\* invoked and the client's state (agent, tools, memory, config) is as
\* it was.
C13_NotConnectedRejected ==
    [][(~agent.set /\ op' = "query") =>
           /\ pc' = "done"
           /\ result' = Raised(<< "Client not connected. Call connect() first." >>)
           /\ ~invoked'
           /\ stream' = << >>
           /\ UNCHANGED << agent, tools, memory, config >>]_vars

\* C13 witness: a greeting was sent to a client whose connect() had failed
C13_Witness ==
    /\ QueryDone /\ ~agent.set
    /\ memory.set
    /\ IsGreeting(q)
    /\ result.status = "raised"

\* C14: a query that went to the agent and returned status=success has
\* appended to the memory exactly two messages: the user's text, then an
\* assistant message whose content is the response returned; no tool
\* result and no intermediate turn is stored.
C14_SuccessAppendsPair ==
    Completed =>
        memory.messages =
            memBefore.messages \o
                << HumanMessage(q), AIMessage(result.response, << >>) >>

\* C14 witness: a query with history and a tool result in its stream has
\* returned a text
C14_Witness ==
    /\ Completed
    /\ memBefore.messages # << >>
    /\ ToolResults(stream) # << >>
    /\ result.response # << >>

\* C15: the context sent to the agent is the most recent
\* min(memory_window_size, len) messages of the memory, oldest first,
\* followed by the new user message.
C15_ContextIsRecentWindow ==
    (op = "query" /\ invoked) =>
        LET h == memBefore.messages
            n == Min(config.memory_window_size, Len(h))
        IN  /\ Len(messages) = n + 1
            /\ \A i \in 1..n : messages[i] = h[Len(h) - n + i]
            /\ messages[n + 1] = HumanMessage(q)

\* C15 witness: the memory holds more than the window, which holds more
\* than one message
C15_Witness ==
    /\ op = "query" /\ invoked
    /\ config.memory_window_size > 1
    /\ Len(memBefore.messages) > 2 * config.memory_window_size - 1

\* C16: without GROQ_API_KEY connect() raises an error that names it, and
\* neither memory nor tools nor agent are ever set: the client stays not
\* connected.
C16_MissingKeyFailsFast ==
    config.groq_api_key = << >> =>
        /\ ~agent.set
        /\ ~memory.set
        /\ tools = << >>
        /\ op = "connect" =>
             result = Raised(<< "Failed to connect client: ", "GROQ_API_KEY is missing" >>)

\* C16 witness: connect() was called without a key
C16_Witness ==
    /\ config.groq_api_key = << >>
    /\ op = "connect"
    /\ result.status = "raised"

\* the expression holds a character outside the allowed set
HasUnsafeChar(e) == IsStr(e) /\ \E i \in 1..Len(e) : e[i] \notin ALLOWED_CHARS

\* C17: calculate never raises to its caller: it returns status success or
\* error. An expression with a character outside digits, + - * / ( ) . ,
\* and space is answered with status=error without being evaluated, and an
\* evaluation that fails is answered with status=error.
C17_CalculateNeverRaises ==
    calc.returned.status # "none" =>
        LET e == calc.expression
        IN  /\ calc.returned.status \in { "success", "error" }
            /\ HasUnsafeChar(e) =>
                 /\ ~calc.evaluated
                 /\ calc.returned = CalcInvalid
            /\ ~IsStr(e) => calc.returned.status = "error"
            /\ (IsStr(e) /\ ~HasUnsafeChar(e)) =>
                 /\ calc.evaluated
                 /\ (Eval(e).raises # "") = (calc.returned.status = "error")

\* C17 witness: an expression that starts as arithmetic and goes on with a
\* name was refused
C17_Witness ==
    /\ calc.expression = << "1", "+", "a" >>
    /\ calc.returned.status = "error"
    /\ ~calc.evaluated

\* C18: when the stream ends in an agent turn without tool requests and
\* without text, and an earlier agent turn without tool requests has text,
\* the response is the text of that earlier turn.
C18_EmptyTurnKeepsAnswer ==
    (/\ Completed
     /\ stream # << >>
     /\ Len(stream) \in PlainTurns(stream) \ PlainTextTurns(stream)
     /\ PlainTextTurns(stream) # {}) =>
        /\ result.response # << >>
        /\ result.response = stream[Last(PlainTextTurns(stream))].content

\* C19: the steps of a successful query() hold one record {tool, result}
\* for each tool result of the stream, in the order of arrival, and no
\* record for an agent turn.
C19_OneStepPerToolResult ==
    Completed =>
        LET tr == ToolResults(stream)
            st == result.intermediate_steps
        IN  /\ Len(st) = Len(tr)
            /\ \A i \in 1..Len(st) :
                 /\ i <= Len(tr)
                 /\ st[i].tool = tr[i].name
                 /\ st[i].result = Preview(tr[i].content)

\* C20: while the stream of a query() is being consumed the memory is as
\* it was when the call was made and the context is not rebuilt; the
\* memory is written at most once, by the step that ends the query.
C20_NoPartialCommit ==
    [][/\ (pc = "streaming" /\ pc' = "streaming") =>
            /\ memory' = memory
            /\ memory = memBefore
            /\ messages' = messages
       /\ (pc = "streaming" /\ pc' # "streaming") =>
            /\ memory = memBefore
            /\ messages' = messages
            /\ \/ memory' = memory
               \/ /\ Len(memory'.messages) = Len(memory.messages) + 2
                  /\ SubSeq(memory'.messages, 1, Len(memory.messages)) = memory.messages
                  /\ result'.status = "success"]_vars

\* C20 witness: two chunks of a query with history have been consumed and
\* the stream is still open
C20_Witness ==
    /\ pc = "streaming"
    /\ Len(stream) >= 2
    /\ memory.messages # << >>
    /\ memory = memBefore

\* the record of the steps for a tool result
StepOf(m) == [tool |-> m.name, result |-> Preview(m.content)]
\* the steps a client that logs verbosely collects from a stream
VerboseSteps(s) ==
    [i \in 1..Len(ToolResults(s)) |-> StepOf(ToolResults(s)[i])]

\* C22: the result of query() does not depend on config.verbose: whatever
\* the setting, for the same memory, text and stream the call returns what
\* a client with verbose on returns (the response drawn from the whole
\* stream, one step per tool result) and stores that response.
C22_VerboseIndependent ==
    Completed =>
        /\ result = Success(ExtractResponse(stream), VerboseSteps(stream))
        /\ memory = save_context(memBefore, q, ExtractResponse(stream))

\* C23: the history part of the context sent to the agent is made of whole
\* pairs: it starts with a user message and alternates user, assistant.
C23_ContextWholePairs ==
    (op = "query" /\ invoked) =>
        LET n == Len(messages) - 1
        IN  /\ n % 2 = 0
            /\ \A i \in 1..n :
                 messages[i].type = IF i % 2 = 1 THEN "human" ELSE "ai"

\* C24: a connect() call that raises leaves the agent, the tools and the
\* memory as they were before the call.
C24_FailedConnectKeepsState ==
    [][(op' = "connect" /\ result'.status = "raised") =>
           UNCHANGED << agent, tools, memory >>]_vars

\* C21: get_response() never raises: it returns status success or error.
\* When the session is not connected it returns
\* {status: error, message: "Client not connected"} without calling the
\* client; when the client's query() raises it returns status=error with
\* the text of the exception; otherwise it returns what query() returned.
C21_GetResponseNeverRaises ==
    ui_response.returned.status # "none" =>
        /\ ui_response.returned.status \in { "success", "error" }
        /\ ~session_state.connected =>
             /\ ~ui_response.called
             /\ ui_response.returned = UIError(<< "Client not connected" >>)
        /\ (session_state.connected /\ session_state.client.stored) =>
             ui_response.called
        /\ (ui_response.called /\ ui_response.outcome.status = "raised") =>
             /\ ui_response.returned.status = "error"
             /\ ui_response.returned.message = ui_response.outcome.message
        /\ (ui_response.called /\ ui_response.outcome.status # "raised") =>
             ui_response.returned = ui_response.outcome

\* C21 witness: the query() of the session's client raised
C21_Witness ==
    /\ session_state.connected
    /\ ui_response.called
    /\ ui_response.outcome.status = "raised"
    /\ ui_response.returned.status = "error"

\* C26: in the session state, connected implies that a client is stored
\* whose connect() ended well; a run whose connection attempt failed ends
\* with no client and not connected; a run of the Disconnect button ends
\* with no client, not connected and an empty chat.
C26_SessionConsistent ==
    /\ session_state.connected =>
         /\ session_state.client.stored
         /\ session_state.client.agent
    /\ script.attempt = "failed" =>
         /\ ~session_state.client.stored
         /\ ~session_state.connected
    /\ script.event = "disconnect" =>
         /\ session_state.client = NoneClient
         /\ ~session_state.connected
         /\ session_state.messages = << >>

\* C26 witness: Disconnect was pressed in a connected session with a chat
C26_Witness ==
    /\ script.event = "disconnect"
    /\ script.before.connected
    /\ script.before.messages # << >>
    /\ ~session_state.connected

\* the pair a finished task must have stored
PairOf(t) == << HumanMessage(t.q), AIMessage(t.result.response, << >>) >>

\* C25: when two query() calls that overlapped have both returned
\* status=success, the memory holds the exchange of each as an adjacent
\* pair (the user message, then the response to it), in one order or the
\* other, and nothing else.
C25_OverlappingQueriesKeepPairs ==
    (\A i \in TaskIds : /\ tasks[i].pc = "done"
                        /\ tasks[i].overlapped
                        /\ tasks[i].result.status = "success") =>
        \/ memory.messages = PairOf(tasks[1]) \o PairOf(tasks[2])
        \/ memory.messages = PairOf(tasks[2]) \o PairOf(tasks[1])

\* C25 witness: two overlapping calls have returned different texts, the
\* one that was called first having returned last
C25_Witness ==
    /\ \A i \in TaskIds : /\ tasks[i].pc = "done"
                          /\ tasks[i].overlapped
                          /\ tasks[i].result.status = "success"
    /\ tasks[1].result.response # << >>
    /\ tasks[1].result.response # tasks[2].result.response
    /\ Len(tasks[1].messages) = 1 /\ Len(tasks[2].messages) = 1
    /\ memory.messages = PairOf(tasks[2]) \o PairOf(tasks[1])

====
